---- MODULE Spec2Model ----
(***************************************************************************)
(* Model of src/main.js: the NPR currency converter widget.                *)
(*                                                                         *)
(* Texts are sequences of string tokens: a message is a one-token          *)
(* sequence, a formatted number is a sequence of one-character tokens.     *)
(* The rupee prefix of formatNPR (two Devanagari letters) is written as    *)
(* the token "Rs".  The rates of the documents are held in hundredths.     *)
(***************************************************************************)
EXTENDS Integers, Sequences, FiniteSets, TLC

(***************************************************************************)
(* Bounds of the model.                                                    *)
(***************************************************************************)
\* time advances in steps of TickStep time units
TickStep == 100
\* timer ids the browser hands out while the model runs
MaxTimers == 2
\* debounced triggers followed in one burst
MaxBurst == 3
\* immediate triggers counted while one debounced invocation is pending
MaxImm == 2
\* scale-reset timers of the result box tracked individually
MaxAnim == 1

(***************************************************************************)
(* Program constants.                                                      *)
(***************************************************************************)
\* debounce(convertCurrency, 300)
Wait == 300

RatesUnavailable == <<"Rates unavailable">>
CurrencyNotAvailable == <<"Currency not available">>
UnableToLoadRates == <<"Unable to load rates. Please refresh.">>
ErrorCell == <<"Unable to load exchange rates. Please refresh the page.">>
ErrorColor == "#dc3545"

\* the page's markup is not part of the source: the texts it starts with
InitialText == <<"(markup)">>

(***************************************************************************)
(* Numbers.  A JavaScript number is a record [k, m, e]: k = "finite" with  *)
(* the value m * 10^e (m signed, not a multiple of 10 unless 0), k = "inf" *)
(* with the sign m, or k = "nan".  The arithmetic is exact decimal         *)
(* arithmetic; the inputs of the model are chosen so that IEEE doubles     *)
(* give the same two-decimal strings (no product sits on a rounding tie).  *)
(***************************************************************************)
Abs(n) == IF n < 0 THEN -n ELSE n

RECURSIVE Pow10(_)
Pow10(k) == IF k = 0 THEN 1 ELSE 10 * Pow10(k - 1)

RECURSIVE Finite(_, _)
Finite(m, e) ==
    IF m = 0 THEN [k |-> "finite", m |-> 0, e |-> 0]
    ELSE IF m % 10 = 0 THEN Finite(m \div 10, e + 1)
    ELSE [k |-> "finite", m |-> m, e |-> e]

NaN == [k |-> "nan", m |-> 0, e |-> 0]

Infinity(sign) == [k |-> "inf", m |-> sign, e |-> 0]

IsZero(x) == x.k = "finite" /\ x.m = 0

Sign(x) == IF x.m < 0 THEN -1 ELSE 1

\* x * y
Times(x, y) ==
    IF x.k = "nan" \/ y.k = "nan" THEN NaN
    ELSE IF x.k = "inf" \/ y.k = "inf"
         THEN IF IsZero(x) \/ IsZero(y) THEN NaN ELSE Infinity(Sign(x) * Sign(y))
    ELSE Finite(x.m * y.m, x.e + y.e)

\* a rate of the model's documents, given in hundredths
RateNum(h) == Finite(h, -2)

(***************************************************************************)
(* Number formatting.                                                      *)
(***************************************************************************)
DigitChar(d) == <<"0", "1", "2", "3", "4", "5", "6", "7", "8", "9">>[d + 1]

RECURSIVE Digits(_)
Digits(n) == IF n < 10 THEN <<DigitChar(n)>> ELSE Digits(n \div 10) \o <<DigitChar(n % 10)>>

Zeros(k) == IF k <= 0 THEN <<>> ELSE [i \in 1..k |-> "0"]

\* Number.prototype.toString of a finite number of magnitude >= 10^21
ExponentialString(x) ==
    LET ds == Digits(Abs(x.m))
    IN  (IF x.m < 0 THEN <<"-">> ELSE <<>>)
        \o <<ds[1]>> \o (IF Len(ds) > 1 THEN <<".">> \o Tail(ds) ELSE <<>>)
        \o <<"e", "+">> \o Digits(Len(ds) + x.e - 1)

\* the digits of a count of hundredths, at least three of them
Pad3(hundredths) == Zeros(3 - Len(hundredths)) \o hundredths

\* "<integer part>.<two digits>" of the padded digits of a count of hundredths
PointString(negative, padded) ==
    (IF negative THEN <<"-">> ELSE <<>>)
    \o SubSeq(padded, 1, Len(padded) - 2) \o <<".">>
    \o SubSeq(padded, Len(padded) - 1, Len(padded))

\* a \div p, rounded to the nearest integer, ties up
RoundDiv(a, p) == (a \div p) + (IF 2 * (a % p) >= p THEN 1 ELSE 0)

\* Number.prototype.toFixed(2): "NaN", "Infinity", the exponential string
\* from 10^21 on, else the sign of the value and its magnitude rounded to
\* the nearest hundredth (ties up)
toFixed(x) ==
    IF x.k = "nan" THEN <<"N", "a", "N">>
    ELSE IF x.k = "inf"
         THEN (IF x.m < 0 THEN <<"-">> ELSE <<>>) \o <<"I", "n", "f", "i", "n", "i", "t", "y">>
    ELSE IF x.e >= -2
         THEN IF x.m # 0 /\ Len(Digits(Abs(x.m))) + x.e >= 22
              THEN ExponentialString(x)
              ELSE PointString(x.m < 0, Pad3(Digits(Abs(x.m)) \o Zeros(x.e + 2)))
    ELSE PointString(x.m < 0, Pad3(Digits(RoundDiv(Abs(x.m), Pow10(-x.e - 2)))))

\* String.prototype.split('.'), then parts[0] and parts[1] as formatNPR
\* concatenates them: a missing parts[1] reads "undefined"
SplitDot(s) ==
    IF \E k \in 1..Len(s) : s[k] = "."
    THEN LET i == CHOOSE k \in 1..Len(s) : s[k] = "." /\ \A j \in 1..(k - 1) : s[j] # "."
         IN  <<SubSeq(s, 1, i - 1), SubSeq(s, i + 1, Len(s))>>
    ELSE <<s, <<"undefined">> >>

\* the while loop of formatNPR: groups of 2 in front of the last 3 digits
RECURSIVE GroupLoop(_, _)
GroupLoop(remaining, formatted) ==
    IF Len(remaining) > 0
    THEN LET n == Len(remaining)
             last2 == IF n >= 2 THEN SubSeq(remaining, n - 1, n) ELSE remaining
             rest == IF n >= 2 THEN SubSeq(remaining, 1, n - 2) ELSE <<>>
         IN  GroupLoop(rest, last2 \o <<",">> \o formatted)
    ELSE formatted

\* lines 140-151 of formatNPR: the grouped integer part
Grouped(intPart) ==
    IF Len(intPart) <= 3 THEN intPart
    ELSE GroupLoop(SubSeq(intPart, 1, Len(intPart) - 3),
                   SubSeq(intPart, Len(intPart) - 2, Len(intPart)))

\* lines 130-153 of formatNPR, parts being amount.toFixed(2).split('.')
FormatParts(parts) ==
    IF Len(parts[1]) > 0 /\ parts[1][1] = "-"
    THEN <<"-", "Rs", " ">> \o Grouped(Tail(parts[1])) \o <<".">> \o parts[2]
    ELSE <<"Rs", " ">> \o Grouped(parts[1]) \o <<".">> \o parts[2]

\* formatNPR(amount)
formatNPR(x) ==
    IF IsZero(x) THEN <<"Rs", " ", "0", ".", "0", "0">> ELSE FormatParts(SplitDot(toFixed(x)))

(***************************************************************************)
(* parseFloat: leading blanks, an optional sign, then "Infinity" or        *)
(* digits, an optional fraction and an optional exponent; whatever follows *)
(* is ignored.  NaN when no number starts the text.                        *)
(***************************************************************************)
IsDigit(c) == c \in {"0", "1", "2", "3", "4", "5", "6", "7", "8", "9"}

DigitVal(c) == CHOOSE d \in 0..9 : DigitChar(d) = c

RECURSIVE SkipBlanks(_)
SkipBlanks(s) == IF Len(s) > 0 /\ s[1] = " " THEN SkipBlanks(Tail(s)) ELSE s

RECURSIVE DigitPrefix(_)
DigitPrefix(s) ==
    IF Len(s) > 0 /\ IsDigit(s[1]) THEN <<s[1]>> \o DigitPrefix(Tail(s)) ELSE <<>>

RECURSIVE DigitsValue(_)
DigitsValue(ds) ==
    IF Len(ds) = 0 THEN 0 ELSE 10 * DigitsValue(SubSeq(ds, 1, Len(ds) - 1)) + DigitVal(ds[Len(ds)])

StartsWith(s, prefix) == Len(s) >= Len(prefix) /\ SubSeq(s, 1, Len(prefix)) = prefix

\* the value of an exponent part at the head of s, 0 when there is none
ExponentValue(s) ==
    IF Len(s) > 0 /\ s[1] \in {"e", "E"}
    THEN LET r == Tail(s)
             signed == Len(r) > 0 /\ r[1] \in {"-", "+"}
             ds == DigitPrefix(IF signed THEN Tail(r) ELSE r)
         IN  IF Len(r) > 0 /\ r[1] = "-" THEN -DigitsValue(ds) ELSE DigitsValue(ds)
    ELSE 0

\* the number whose digits are ip and fp, rest being what follows them
DecimalLiteral(sign, ip, fp, rest) ==
    IF Len(ip) = 0 /\ Len(fp) = 0 THEN NaN
    ELSE Finite(sign * DigitsValue(ip \o fp), ExponentValue(rest) - Len(fp))

\* ip are the leading digits, afterInt what follows them
AfterInteger(sign, ip, afterInt) ==
    IF Len(afterInt) > 0 /\ afterInt[1] = "."
    THEN DecimalLiteral(sign, ip, DigitPrefix(Tail(afterInt)),
                        SubSeq(afterInt, Len(DigitPrefix(Tail(afterInt))) + 2, Len(afterInt)))
    ELSE DecimalLiteral(sign, ip, <<>>, afterInt)

\* u is the text after the blanks and the sign
Unsigned(sign, u) ==
    IF StartsWith(u, <<"I", "n", "f", "i", "n", "i", "t", "y">>) THEN Infinity(sign)
    ELSE AfterInteger(sign, DigitPrefix(u), SubSeq(u, Len(DigitPrefix(u)) + 1, Len(u)))

\* t is the text after the blanks
Trimmed(t) ==
    IF Len(t) > 0 /\ t[1] = "-" THEN Unsigned(-1, Tail(t))
    ELSE IF Len(t) > 0 /\ t[1] = "+" THEN Unsigned(1, Tail(t))
    ELSE Unsigned(1, t)

parseFloat(str) == Trimmed(SkipBlanks(str))

\* variant: the amount is used as parsed, without the || 0
ParsedAmountAsParsed(str) == parseFloat(str)

\* parseFloat(elements.amount.value) || 0
OrZero(p) == IF p.k = "nan" \/ IsZero(p) THEN Finite(0, 0) ELSE p

ParsedAmount(str) == OrZero(parseFloat(str))

(***************************************************************************)
(* The data the page works on.                                             *)
(***************************************************************************)
\* the options of the currency select
SelectOptions == {"USD", "QAR", "MYR"}

\* what the user can have typed into the amount field
AmountInputs == {<<>>, <<"2">>, <<"a", "b", "c">>}

CURRENCY_CONFIG ==
    [code \in {"USD", "QAR", "MYR", "AED", "SAR"} |->
        CASE code = "USD" -> [name |-> "US Dollar", flag |-> "flag-US", symbol |-> "$"]
          [] code = "QAR" -> [name |-> "Qatar Riyal", flag |-> "flag-QA", symbol |-> "QR"]
          [] code = "MYR" -> [name |-> "Malaysian Ringgit", flag |-> "flag-MY", symbol |-> "RM"]
          [] code = "AED" -> [name |-> "UAE Dirham", flag |-> "flag-AE", symbol |-> "AED"]
          [] code = "SAR" -> [name |-> "Saudi Riyal", flag |-> "flag-SA", symbol |-> "SR"]]

\* JSON null, and ratesData before the load
Null == [json |-> "null"]

\* /rates.json as documented: rates in hundredths, in document order
GoodDoc ==
    [json |-> "object", updated |-> "2024-01-15",
     rates |-> <<[code |-> "USD", rate |-> [buy |-> 13210, sell |-> 13350]],
                 [code |-> "QAR", rate |-> [buy |-> 3610, sell |-> 3664]]>>]

\* well-formed JSON, one rate lacks its buy field
NoBuyDoc ==
    [json |-> "object", updated |-> "2024-01-15",
     rates |-> <<[code |-> "USD", rate |-> [sell |-> 13350]]>>]

\* well-formed JSON without a rates member: {}
NoRatesDoc == [json |-> "object"]

\* the documents response.json() can resolve to
Documents == {GoodDoc, NoBuyDoc, NoRatesDoc, Null}

HasCode(rates, code) == \E i \in 1..Len(rates) : rates[i].code = code

RateOf(rates, code) ==
    rates[CHOOSE i \in 1..Len(rates) : rates[i].code = code /\
              \A j \in 1..Len(rates) : rates[j].code = code => j <= i].rate

\* new Date(updated).toLocaleDateString('en-US', {year, month: 'long', day})
FormatDate(doc) ==
    IF "updated" \notin DOMAIN doc THEN "Invalid Date"
    ELSE CASE doc.updated = "2024-01-15" -> "January 15, 2024"
           [] OTHER -> "Invalid Date"

(***************************************************************************)
(* State.                                                                  *)
(***************************************************************************)
VARIABLES
    ratesData,      \* let ratesData: Null or the parsed document
    isLoading,      \* let isLoading
    pc,             \* where loadRates is: "fetch", "json", "done" (returned), "failed" (catch ran)
    elements,       \* what the handlers read and write of the DOM elements
    animTimers,     \* live setTimeout(..., 150) scale resets of the result box
    timers,         \* live timers of the debounce wrapper: records [id, age]
    timeout,        \* let timeout of debounce: a timer id, 0 while undefined
    sinceLast,      \* time since the latest input event, saturating at Wait
    burstN,         \* input events of the current burst, saturating at MaxBurst
    burstCalls,     \* invocations made by later() since the current burst began
    burstImm,       \* immediate triggers handled while the burst's timer was live
    lastCall,       \* the latest run of convertCurrency: who called it, how it
                    \* ended, n, which flips at every run, and moved: later() ran
                    \* it on a select or ratesData changed since the input event
    atTrigger       \* what the page held at the latest input event whose timer is
                    \* still pending: the select, the amount field and ratesData

vars == <<ratesData, isLoading, pc, elements, animTimers, timers, timeout,
          sinceLast, burstN, burstCalls, burstImm, lastCall, atTrigger>>

Min(a, b) == IF a < b THEN a ELSE b

(***************************************************************************)
(* Rendering.  Each operator maps the elements record to the elements      *)
(* record the function leaves behind.                                      *)
(***************************************************************************)
updateLastUpdated(rd, els) ==
    IF rd = Null THEN els
    ELSE [els EXCEPT !.lastUpdated = <<"Last updated: ", FormatDate(rd)>>]

\* one <tr> of updateRatesTable: three cells
RateRow(entry) ==
    LET config == IF entry.code \in DOMAIN CURRENCY_CONFIG
                  THEN CURRENCY_CONFIG[entry.code]
                  ELSE [name |-> entry.code, flag |-> "flag-white"]
    IN  << <<config.flag, " ", entry.code, " - ", config.name>>,
           toFixed(RateNum(entry.rate.buy)),
           toFixed(RateNum(entry.rate.sell)) >>

\* [threw, els]: a TypeError leaves before innerHTML is assigned
updateRatesTable(rd, els) ==
    IF rd = Null THEN [threw |-> FALSE, els |-> els]
    ELSE IF "rates" \notin DOMAIN rd THEN [threw |-> TRUE, els |-> els]
    ELSE IF \E i \in 1..Len(rd.rates) : {"buy", "sell"} \ DOMAIN rd.rates[i].rate # {}
         THEN [threw |-> TRUE, els |-> els]
    ELSE [threw |-> FALSE,
          els |-> [els EXCEPT !.ratesBody = [i \in 1..Len(rd.rates) |-> RateRow(rd.rates[i])]]]

showError(els) ==
    [els EXCEPT !.lastUpdated = UnableToLoadRates,
                !.lastUpdatedBackground = "#f8d7da",
                !.lastUpdatedColor = "#721c24",
                !.ratesBody = << <<ErrorCell>> >>,
                !.resultAmount = RatesUnavailable]

\* variant: the conversion error also blanks the rates table
showConversionErrorWipesTable(els, message) ==
    [els EXCEPT !.resultAmount = message, !.resultAmountColor = ErrorColor,
                !.ratesBody = << <<ErrorCell>> >>]

showConversionError(els, message) ==
    [els EXCEPT !.resultAmount = message, !.resultAmountColor = ErrorColor]

\* variant: the conversion multiplies by the buy rate
convertLoadedBuyRate(rd, els) ==
    IF "rates" \notin DOMAIN rd THEN [els |-> els, outcome |-> "threw"]
    ELSE IF ~HasCode(rd.rates, els.currency)
         THEN [els |-> showConversionError(els, CurrencyNotAvailable), outcome |-> "unknown"]
    ELSE LET rate == RateOf(rd.rates, els.currency)
             amount == ParsedAmount(els.amount)
         IN  IF "sell" \notin DOMAIN rate THEN [els |-> els, outcome |-> "threw"]
             ELSE [els |-> [els EXCEPT
                              !.resultAmount = formatNPR(Times(amount, RateNum(rate.buy))),
                              !.resultRate = <<"1 ", els.currency, " = NPR ">>
                                             \o toFixed(RateNum(rate.sell)),
                              !.resultBoxTransform = "scale(1.02)"],
                   outcome |-> "converted"]

\* convertCurrency once ratesData is not null: lines 92-122
convertLoaded(rd, els) ==
    IF "rates" \notin DOMAIN rd THEN [els |-> els, outcome |-> "threw"]
    ELSE IF ~HasCode(rd.rates, els.currency)
         THEN [els |-> showConversionError(els, CurrencyNotAvailable), outcome |-> "unknown"]
    ELSE LET rate == RateOf(rd.rates, els.currency)
             amount == ParsedAmount(els.amount)
         IN  IF "sell" \notin DOMAIN rate THEN [els |-> els, outcome |-> "threw"]
             ELSE [els |-> [els EXCEPT
                              !.resultAmount = formatNPR(Times(amount, RateNum(rate.sell))),
                              !.resultRate = <<"1 ", els.currency, " = NPR ">>
                                             \o toFixed(RateNum(rate.sell)),
                              !.resultBoxTransform = "scale(1.02)"],
                   outcome |-> "converted"]

\* variant: the guard of line 88 reports instead of returning
convertCurrencyReportsNotReady(rd, els) ==
    IF rd = Null THEN [els |-> [els EXCEPT !.resultAmount = RatesUnavailable],
                       outcome |-> "returned"]
    ELSE convertLoaded(rd, els)

(***************************************************************************)
(* convertCurrency: [els, outcome], outcome one of                         *)
(*   "returned"   the early return of line 89                              *)
(*   "unknown"    showConversionError('Currency not available')            *)
(*   "converted"  result and rate written, scale animation started         *)
(*   "threw"      a TypeError left the function before any write           *)
(***************************************************************************)
convertCurrency(rd, els) ==
    IF rd = Null THEN [els |-> els, outcome |-> "returned"]
    ELSE convertLoaded(rd, els)

\* the setTimeout(..., 150) of a successful conversion
AnimAfter(outcome) == IF outcome = "converted" THEN Min(animTimers + 1, MaxAnim) ELSE animTimers

\* atTrigger while no debounced invocation is pending
NoTrigger == [currency |-> "", amount |-> <<>>, ratesData |-> Null]

(***************************************************************************)
(* Initial state: init() has run.  loadRates() is suspended at             *)
(* await fetch(...), bindEvents() has bound the listeners.  The amount     *)
(* field and the select hold whatever the page came up with.               *)
(***************************************************************************)
InitialElements(c, a) ==
    [currency |-> c, amount |-> a,
     resultAmount |-> InitialText, resultAmountColor |-> "",
     resultRate |-> InitialText,
     lastUpdated |-> InitialText,
     lastUpdatedBackground |-> "", lastUpdatedColor |-> "",
     ratesBody |-> << <<InitialText>> >>,
     resultBoxTransform |-> ""]

Init ==
    /\ ratesData = Null
    /\ isLoading = TRUE
    /\ pc = "fetch"
    /\ \E c \in SelectOptions, a \in AmountInputs : elements = InitialElements(c, a)
    /\ animTimers = 0
    /\ timers = {}
    /\ timeout = 0
    /\ sinceLast = Wait
    /\ burstN = 0
    /\ burstCalls = 0
    /\ burstImm = 0
    /\ lastCall = [via |-> "none", outcome |-> "none", n |-> 0, moved |-> FALSE]
    /\ atTrigger = NoTrigger

schedulerVars == <<timers, timeout, sinceLast, burstN, burstCalls, burstImm, atTrigger>>

(***************************************************************************)
(* loadRates.                                                              *)
(***************************************************************************)
\* catch (error) { isLoading = false; showError(); }
Catch(els) ==
    /\ isLoading' = FALSE
    /\ elements' = showError(els)
    /\ pc' = "failed"

\* fetch('/rates.json') rejects
FetchRejected ==
    /\ pc = "fetch"
    /\ Catch(elements)
    /\ UNCHANGED <<ratesData, animTimers, lastCall, schedulerVars>>

\* variant: isLoading is cleared as soon as the response arrives
FetchResolvedClearsLoading(ok) ==
    /\ pc = "fetch"
    /\ IF ok THEN pc' = "json" /\ isLoading' = FALSE /\ UNCHANGED elements
             ELSE Catch(elements)
    /\ UNCHANGED <<ratesData, animTimers, lastCall, schedulerVars>>

\* fetch resolves; !response.ok throws
FetchResolved(ok) ==
    /\ pc = "fetch"
    /\ IF ok THEN pc' = "json" /\ UNCHANGED <<isLoading, elements>>
             ELSE Catch(elements)
    /\ UNCHANGED <<ratesData, animTimers, lastCall, schedulerVars>>

\* response.json() rejects: the body is not JSON
JsonRejected ==
    /\ pc = "json"
    /\ Catch(elements)
    /\ UNCHANGED <<ratesData, animTimers, lastCall, schedulerVars>>

\* response.json() resolves to doc: lines 46-55, and the catch when one of them throws
JsonResolved(doc) ==
    /\ pc = "json"
    /\ ratesData' = doc
    /\ LET els1 == updateLastUpdated(doc, elements)
           table == updateRatesTable(doc, els1)
           auto == Len(elements.amount) > 0
           conv == convertCurrency(doc, table.els)
       IN  IF table.threw
           THEN Catch(table.els) /\ UNCHANGED <<animTimers, lastCall>>
           ELSE IF ~auto
           THEN /\ isLoading' = FALSE
                /\ elements' = table.els
                /\ pc' = "done"
                /\ UNCHANGED <<animTimers, lastCall>>
           ELSE /\ lastCall' = [via |-> "load", outcome |-> conv.outcome,
                                n |-> 1 - lastCall.n, moved |-> FALSE]
                /\ animTimers' = AnimAfter(conv.outcome)
                /\ IF conv.outcome = "threw"
                   THEN Catch(conv.els)
                   ELSE /\ isLoading' = FALSE
                        /\ elements' = conv.els
                        /\ pc' = "done"
    /\ UNCHANGED schedulerVars

(***************************************************************************)
(* Immediate triggers: the listeners call convertCurrency directly.        *)
(***************************************************************************)
\* an event listener runs convertCurrency on els; a throw ends the listener
Invoke(via, els) ==
    LET conv == convertCurrency(ratesData, els)
    IN  /\ elements' = conv.els
        /\ animTimers' = AnimAfter(conv.outcome)
        /\ lastCall' = [via |-> via, outcome |-> conv.outcome, n |-> 1 - lastCall.n,
                        moved |-> /\ via = "timer"
                                  /\ \/ atTrigger.currency # els.currency
                                     \/ atTrigger.ratesData # ratesData]

ImmediateCount == IF timers # {} THEN Min(burstImm + 1, MaxImm) ELSE burstImm

\* variant: a click cancels the pending debounced invocation
ClickCancelsPending ==
    /\ Invoke("immediate", elements)
    /\ burstImm' = ImmediateCount
    /\ timers' = {}
    /\ UNCHANGED <<ratesData, isLoading, pc, timeout, sinceLast, burstN, burstCalls, atTrigger>>

\* convertBtn 'click'
Click ==
    /\ Invoke("immediate", elements)
    /\ burstImm' = ImmediateCount
    /\ UNCHANGED <<ratesData, isLoading, pc, timers, timeout, sinceLast, burstN,
                   burstCalls, atTrigger>>

\* amount 'keypress': only Enter converts
Keypress(key) ==
    IF key = "Enter"
    THEN /\ Invoke("immediate", elements)
         /\ burstImm' = ImmediateCount
         /\ UNCHANGED <<ratesData, isLoading, pc, timers, timeout, sinceLast, burstN,
                   burstCalls, atTrigger>>
    ELSE UNCHANGED vars

\* currency 'change': the select holds the new option when the listener runs
Change(c) ==
    /\ c # elements.currency
    /\ Invoke("immediate", [elements EXCEPT !.currency = c])
    /\ burstImm' = ImmediateCount
    /\ UNCHANGED <<ratesData, isLoading, pc, timers, timeout, sinceLast, burstN,
                   burstCalls, atTrigger>>

(***************************************************************************)
(* debounce(convertCurrency, 300).                                         *)
(***************************************************************************)
clearTimeout(ts, id) == {t \in ts : t.id # id}

FreeIds(ts, handle) == {i \in 1..MaxTimers : i # handle /\ \A t \in ts : t.id # i}

\* variant: let timeout is declared inside executedFunction, one per call
executedFunctionLocalTimeout(ts, handle) ==
    LET id == CHOOSE i \in FreeIds(ts, handle) : \A j \in FreeIds(ts, handle) : i <= j
    IN  [timers |-> ts \cup {[id |-> id, age |-> 0]}, timeout |-> handle]

\* variant: the clearTimeout(timeout) of line 231 is missing
executedFunctionNoClear(ts, handle) ==
    LET id == CHOOSE i \in FreeIds(ts, handle) : \A j \in FreeIds(ts, handle) : i <= j
    IN  [timers |-> ts \cup {[id |-> id, age |-> 0]}, timeout |-> id]

\* variant: a trigger that finds a timer pending leaves it running
executedFunctionNoRestart(ts, handle) ==
    LET id == CHOOSE i \in FreeIds(ts, handle) : \A j \in FreeIds(ts, handle) : i <= j
    IN  IF \E t \in ts : t.id = handle
        THEN [timers |-> ts, timeout |-> handle]
        ELSE [timers |-> ts \cup {[id |-> id, age |-> 0]}, timeout |-> id]

\* executedFunction: clearTimeout(timeout); timeout = setTimeout(later, wait)
executedFunction(ts, handle) ==
    LET id == CHOOSE i \in FreeIds(ts, handle) : \A j \in FreeIds(ts, handle) : i <= j
    IN  [timers |-> clearTimeout(ts, handle) \cup {[id |-> id, age |-> 0]}, timeout |-> id]

\* amount 'input': the field holds the new text v, the debounced wrapper runs
Input(v) ==
    /\ v # elements.amount
    /\ FreeIds(timers, timeout) # {}
    /\ elements' = [elements EXCEPT !.amount = v]
    /\ LET next == executedFunction(timers, timeout)
           sameBurst == burstN >= 1 /\ sinceLast < Wait
       IN  /\ timers' = next.timers
           /\ timeout' = next.timeout
           /\ burstN' = IF sameBurst THEN Min(burstN + 1, MaxBurst) ELSE 1
           /\ burstCalls' = IF sameBurst THEN burstCalls ELSE 0
           /\ burstImm' = IF sameBurst THEN burstImm ELSE 0
    /\ sinceLast' = 0
    /\ atTrigger' = [currency |-> elements.currency, amount |-> v, ratesData |-> ratesData]
    /\ UNCHANGED <<ratesData, isLoading, pc, animTimers, lastCall>>

\* variant: later converts what the page held at the input event
laterConvertsCaptured(t) ==
    /\ t \in timers
    /\ t.age >= Wait
    /\ timers' = clearTimeout(timers \ {t}, timeout)
    /\ LET conv == convertCurrency(atTrigger.ratesData,
                                   [elements EXCEPT !.currency = atTrigger.currency,
                                                    !.amount = atTrigger.amount])
       IN  /\ elements' = [conv.els EXCEPT !.currency = elements.currency,
                                           !.amount = elements.amount]
           /\ animTimers' = AnimAfter(conv.outcome)
           /\ lastCall' = [via |-> "timer", outcome |-> conv.outcome, n |-> 1 - lastCall.n,
                           moved |-> \/ atTrigger.currency # elements.currency
                                     \/ atTrigger.ratesData # ratesData]
    /\ burstCalls' = Min(burstCalls + 1, 2)
    /\ atTrigger' = IF timers' = {} THEN NoTrigger ELSE atTrigger
    /\ UNCHANGED <<ratesData, isLoading, pc, timeout, sinceLast, burstN, burstImm>>

\* later: clearTimeout(timeout); func(...args), run by the timer t at its expiry
later(t) ==
    /\ t \in timers
    /\ t.age >= Wait
    /\ timers' = clearTimeout(timers \ {t}, timeout)
    /\ Invoke("timer", elements)
    /\ burstCalls' = Min(burstCalls + 1, 2)
    /\ atTrigger' = IF timers' = {} THEN NoTrigger ELSE atTrigger
    /\ UNCHANGED <<ratesData, isLoading, pc, timeout, sinceLast, burstN, burstImm>>

\* the result box's scale reset, 150 time units after a conversion
AnimReset ==
    /\ animTimers > 0
    /\ animTimers' = animTimers - 1
    /\ elements' = [elements EXCEPT !.resultBoxTransform = "scale(1)"]
    /\ UNCHANGED <<ratesData, isLoading, pc, lastCall, schedulerVars>>

\* time passes, never beyond the expiry of a live timer
Tick ==
    /\ timers # {}
    /\ \A t \in timers : t.age < Wait
    /\ timers' = {[t EXCEPT !.age = Min(t.age + TickStep, Wait)] : t \in timers}
    /\ sinceLast' = Min(sinceLast + TickStep, Wait)
    /\ UNCHANGED <<ratesData, isLoading, pc, elements, animTimers, timeout,
                   burstN, burstCalls, burstImm, lastCall, atTrigger>>

Next ==
    \/ FetchRejected
    \/ \E ok \in BOOLEAN : FetchResolved(ok)
    \/ JsonRejected
    \/ \E doc \in Documents : JsonResolved(doc)
    \/ Click
    \/ \E key \in {"Enter", "a"} : Keypress(key)
    \/ \E c \in SelectOptions : Change(c)
    \/ \E v \in AmountInputs : Input(v)
    \/ \E t \in timers : later(t)
    \/ AnimReset
    \/ Tick

Spec == Init /\ [][Next]_vars

(***************************************************************************)
(* The conversion on its own: the page right after loadRates has returned  *)
(* normally, for a wider choice of documents, select options and amount    *)
(* texts, under the immediate triggers.  The amount field keeps the text   *)
(* it came up with.                                                        *)
(***************************************************************************)
\* two documents that agree on every sell rate of USD and XXX and differ in
\* the buy rates and in the other currency
DocA ==
    [json |-> "object", updated |-> "2024-01-15",
     rates |-> <<[code |-> "USD", rate |-> [buy |-> 13210, sell |-> 13350]],
                 [code |-> "XXX", rate |-> [buy |-> 100, sell |-> 10000]],
                 [code |-> "QAR", rate |-> [buy |-> 3610, sell |-> 40]]>>]

DocB ==
    [json |-> "object", updated |-> "2024-01-15",
     rates |-> <<[code |-> "QAR", rate |-> [buy |-> 30, sell |-> 100]],
                 [code |-> "USD", rate |-> [buy |-> 12000, sell |-> 13350]],
                 [code |-> "XXX", rate |-> [buy |-> 9900, sell |-> 10000]]>>]

ConvertDocs == {DocA, DocB}

ConvertOptions == {"USD", "QAR", "MYR", "XXX"}

ConvertAmounts ==
    { <<>>, <<"a", "b", "c">>, <<"-">>, <<"0">>, <<"2">>, <<"2", "x">>, <<" ", "7">>,
      <<"-", "5">>, <<"9", "9", "9">>, <<"1", "0", "0", "0">>,
      <<"1", "2", "3", "4", "5">>, <<"1", "2", "3", "4", "5", "6", "7">>,
      <<"-", "1", "2", "3", "4", ".", "5">>, <<"-", ".", "0", "0", "1">>,
      <<"1", "e", "2", "1">>, <<"-", "1", "e", "2", "1">>,
      <<"I", "n", "f", "i", "n", "i", "t", "y">> }

\* the state loadRates leaves when response.json() resolved to doc while the
\* select held c and the amount field a
InitConvert ==
    \E doc \in ConvertDocs, c \in ConvertOptions, a \in ConvertAmounts :
        LET els1 == updateLastUpdated(doc, InitialElements(c, a))
            table == updateRatesTable(doc, els1)
            auto == Len(a) > 0
            conv == convertCurrency(doc, table.els)
        IN  /\ ~table.threw
            /\ conv.outcome # "threw"
            /\ ratesData = doc
            /\ isLoading = FALSE
            /\ pc = "done"
            /\ elements = IF auto THEN conv.els ELSE table.els
            /\ animTimers = IF auto /\ conv.outcome = "converted" THEN 1 ELSE 0
            /\ lastCall = IF auto
                          THEN [via |-> "load", outcome |-> conv.outcome, n |-> 1,
                                moved |-> FALSE]
                          ELSE [via |-> "none", outcome |-> "none", n |-> 0, moved |-> FALSE]
            /\ timers = {}
            /\ timeout = 0
            /\ sinceLast = Wait
            /\ burstN = 0
            /\ burstCalls = 0
            /\ burstImm = 0
            /\ atTrigger = NoTrigger

NextConvert ==
    \/ Click
    \/ \E c \in ConvertOptions : Change(c)
    \/ AnimReset

SpecConvert == InitConvert /\ [][NextConvert]_vars

(***************************************************************************)
(* Derived notions used by the properties.                                 *)
(***************************************************************************)
\* LoadStatus of the store: Loading while isLoading, Failed once the catch of
\* loadRates has run, Ready once loadRates has returned normally
LoadStatus ==
    IF isLoading THEN "Loading" ELSE IF pc = "failed" THEN "Failed" ELSE "Ready"

\* the selected currency is a key of the stored snapshot's rates
CurrencyLoaded ==
    /\ ratesData # Null
    /\ "rates" \in DOMAIN ratesData
    /\ HasCode(ratesData.rates, elements.currency)

\* this step ran convertCurrency
Called == lastCall'.n # lastCall.n

\* this step is later() calling func
DebouncedInvocation == Called /\ lastCall'.via = "timer"

\* this step is a click, an Enter keypress or a currency change
ImmediateStep == Called /\ lastCall'.via = "immediate"

\* this step is an input event
InputStep == elements'.amount # elements.amount

(***************************************************************************)
(* C1: a conversion result is written to the result display only if the    *)
(* load status is Ready and the selected currency is a key of the loaded   *)
(* snapshot's rates.  Stated of the latest run of convertCurrency: if it   *)
(* wrote a result, the status is Ready and the currency is loaded.         *)
(* The code violates it: see C2.                                           *)
(***************************************************************************)
C1_ResultOnlyWhenReady ==
    lastCall.outcome = "converted" => (LoadStatus = "Ready" /\ CurrencyLoaded)

(***************************************************************************)
(* C2: whenever the load has ended on its failure path, the store holds    *)
(* no snapshot data.  The code violates it: ratesData is assigned before   *)
(* the rendering that throws, and the catch does not reset it.             *)
(***************************************************************************)
C2_FailedHoldsNoData == LoadStatus = "Failed" => ratesData = Null

(***************************************************************************)
(* C3: the load status starts at Loading and its only transitions are      *)
(* Loading -> Ready and Loading -> Failed.                                 *)
(***************************************************************************)
C3_StatusLifecycle ==
    /\ LoadStatus = "Loading"
    /\ [][\/ LoadStatus' = LoadStatus
          \/ LoadStatus = "Loading" /\ LoadStatus' \in {"Ready", "Failed"}]_vars

\* a debounced conversion has run after the load succeeded
C3_Witness ==
    LoadStatus = "Ready" /\ lastCall.via = "timer" /\ lastCall.outcome = "converted"

(***************************************************************************)
(* C4: once the load has failed, the rates table shows the 'unavailable'   *)
(* message and the result display the 'unavailable' indicator, whatever    *)
(* triggers follow.  The code violates it, through the data C2 leaves.     *)
(***************************************************************************)
C4_FailedStaysUnavailable ==
    LoadStatus = "Failed" =>
        /\ elements.ratesBody = << <<ErrorCell>> >>
        /\ elements.resultAmount = RatesUnavailable

C6_UnknownCurrencyFrame ==
    /\ [][(Called /\ lastCall'.outcome = "unknown" /\ lastCall'.via # "load") =>
            /\ elements' = [elements EXCEPT !.currency = elements'.currency,
                                            !.resultAmount = CurrencyNotAvailable,
                                            !.resultAmountColor = ErrorColor]
            /\ ratesData' = ratesData]_vars
    /\ [](lastCall.outcome = "unknown" =>
            /\ ~CurrencyLoaded
            /\ elements.resultAmount = CurrencyNotAvailable
            /\ (LoadStatus = "Ready" =>
                  elements.ratesBody =
                      [i \in 1..Len(ratesData.rates) |-> RateRow(ratesData.rates[i])]))

\* the select was changed to a currency the loaded snapshot lacks
C6_Witness ==
    /\ LoadStatus = "Ready"
    /\ lastCall.via = "immediate"
    /\ lastCall.outcome = "unknown"
    /\ Len(elements.ratesBody) = 2

(***************************************************************************)
(* C7: a burst of N >= 1 input events, each less than the quiet interval   *)
(* after the previous one, causes exactly one invocation through the       *)
(* debounce path: none while the timer is pending, one once it has run,    *)
(* and by the time the quiet interval has elapsed the invocation has       *)
(* happened or is due.                                                     *)
(***************************************************************************)
C7_OneInvocationPerBurst ==
    burstN >= 1 =>
        /\ burstCalls <= 1
        /\ (timers = {}) <=> (burstCalls = 1)
        /\ sinceLast >= Wait => (burstCalls = 1 \/ \E t \in timers : t.age >= Wait)

\* a burst of MaxBurst input events has been answered by its one invocation
C7_Witness == burstN = MaxBurst /\ burstCalls = 1 /\ timers = {}

(***************************************************************************)
(* C8: the debounce path invokes the action only when a full quiet         *)
(* interval has elapsed since the most recent input event: every input     *)
(* event leaves exactly the timer it has just started, a pending timer is  *)
(* as old as the latest input event, and later() never runs sooner than    *)
(* Wait after it.                                                          *)
(***************************************************************************)
C8_FullQuietInterval ==
    /\ [](\A t \in timers : t.age = sinceLast)
    /\ [][InputStep => (timers' = {[id |-> timeout', age |-> 0]} /\ sinceLast' = 0)]_vars
    /\ [][DebouncedInvocation => sinceLast >= Wait]_vars

\* the invocation of a burst of several input events, a quiet interval after the last
C8_Witness ==
    burstN >= 2 /\ burstCalls = 1 /\ sinceLast = Wait /\ lastCall.via = "timer"

(***************************************************************************)
(* C9: at most one debounced invocation is pending: the scheduler is idle  *)
(* (no live timer) or pending with the single timer that timeout names.    *)
(***************************************************************************)
C9_AtMostOnePending ==
    /\ Cardinality(timers) <= 1
    /\ \A t \in timers : t.id = timeout

\* an input event has superseded the pending invocation of an earlier one
C9_Witness == burstN >= 2 /\ timers = {[id |-> timeout, age |-> 0]}

(***************************************************************************)
(* C10: an immediate trigger invokes the action in its own step and leaves *)
(* the debounce timer alone: the timer, its age and the handle are         *)
(* unchanged, and the pending debounced invocation still runs once, at its *)
(* original expiry (k immediate invocations and one debounced).            *)
(***************************************************************************)
C10_ImmediateLeavesTimer ==
    /\ [][ImmediateStep =>
            /\ timers' = timers
            /\ timeout' = timeout
            /\ sinceLast' = sinceLast
            /\ burstCalls' = burstCalls]_vars
    /\ [][burstImm' = burstImm + 1 => ImmediateStep]_vars
    /\ [](burstImm >= 1 =>
            IF timers = {} THEN burstCalls = 1
            ELSE burstCalls = 0 /\ \A t \in timers : t.age = sinceLast)

\* one immediate trigger arrived while the timer was pending; the timer has run since
C10_Witness ==
    burstImm = 1 /\ timers = {} /\ burstCalls = 1 /\ lastCall.via = "timer"

\* what the result display shows: amount text, its colour, rate description
Shown(els) == <<els.resultAmount, els.resultAmountColor, els.resultRate>>

(***************************************************************************)
(* C11, as claimed: the invocation that results from a burst of input      *)
(* events converts the selected currency, the amount and the snapshot as   *)
(* they were at the last input event of the burst.                         *)
(***************************************************************************)
C11_ConvertsStateAtTrigger ==
    [][DebouncedInvocation =>
          Shown(elements') =
              Shown(convertCurrency(atTrigger.ratesData,
                                    [elements EXCEPT !.currency = atTrigger.currency,
                                                     !.amount = atTrigger.amount]).els)]_vars

(***************************************************************************)
(* C11, amended: the invocation that results from a burst converts the     *)
(* state as it is when the timer expires.  The amount is still the one of  *)
(* the last input event (a later one would have restarted the timer); the  *)
(* selected currency and the snapshot are read at expiry, so a currency    *)
(* change or the end of the load in between shows in the result.           *)
(***************************************************************************)
C11_ConvertsStateAtExpiry ==
    /\ [](timers # {} => atTrigger.amount = elements.amount)
    /\ [][DebouncedInvocation =>
            /\ Shown(elements') = Shown(convertCurrency(ratesData, elements).els)
            /\ elements'.currency = elements.currency
            /\ elements'.amount = elements.amount]_vars

\* later() has converted for a currency chosen, or a snapshot loaded, after the input event
C11_Witness ==
    lastCall.via = "timer" /\ lastCall.moved /\ lastCall.outcome = "converted"

(***************************************************************************)
(* The conversion alone (SpecConvert).  There the amount field never       *)
(* changes and every change of the select converts, so after a successful  *)
(* conversion the display is that of the current select and amount.        *)
(***************************************************************************)
\* the latest run of convertCurrency wrote a result
Converted == lastCall.outcome = "converted"

\* rates[currency].sell of the loaded document
CurrentSell == RateNum(RateOf(ratesData.rates, elements.currency).sell)

\* C12: a successful conversion displays format(amount x sell rate of the
\* selected currency) and "1 <code> = NPR <sell rate to two decimals>"; a
\* document with other buy rates and other currencies but the same sell rate
\* gives the same display; a sell rate of 100 and an amount of 2 display
\* 200.00 and "1 XXX = NPR 100.00".
C12_SellRateOnly ==
    Converted =>
        /\ elements.resultAmount = formatNPR(Times(ParsedAmount(elements.amount), CurrentSell))
        /\ elements.resultRate = <<"1 ", elements.currency, " = NPR ">> \o toFixed(CurrentSell)
        /\ \A doc \in ConvertDocs :
              /\ HasCode(doc.rates, elements.currency)
              /\ RateOf(doc.rates, elements.currency).sell
                     = RateOf(ratesData.rates, elements.currency).sell
              => Shown(convertCurrency(doc, elements).els) = Shown(elements)
        /\ elements.currency = "XXX" /\ elements.amount = <<"2">>
              => /\ elements.resultAmount = <<"Rs", " ", "2", "0", "0", ".", "0", "0">>
                 /\ elements.resultRate = <<"1 ", "XXX", " = NPR ", "1", "0", "0", ".", "0", "0">>
        /\ elements.currency = "USD" /\ elements.amount = <<"-", "1", "2", "3", "4", ".", "5">>
              => elements.resultAmount
                    = <<"-", "Rs", " ", "1", ",", "6", "4", ",", "8", "0", "5", ".", "7", "5">>

C12_Witness ==
    /\ Converted
    /\ lastCall.via = "immediate"
    /\ elements.currency = "XXX"
    /\ elements.amount = <<"2">>
    /\ ratesData = DocB

\* no number starts the text: after blanks and a sign comes neither a digit,
\* nor a point and a digit, nor Infinity
NoNumber(str) ==
    LET t == SkipBlanks(str)
        u == IF Len(t) > 0 /\ t[1] \in {"-", "+"} THEN Tail(t) ELSE t
    IN  ~ \/ Len(u) > 0 /\ IsDigit(u[1])
          \/ Len(u) > 1 /\ u[1] = "." /\ IsDigit(u[2])
          \/ StartsWith(u, <<"I", "n", "f", "i", "n", "i", "t", "y">>)

Product == Times(ParsedAmount(elements.amount), CurrentSell)

HasSign(s) == Len(s) > 0 /\ s[1] = "-"

\* what follows the sign, the prefix and the space
AfterPrefix(s) ==
    LET t == IF HasSign(s) THEN Tail(s) ELSE s IN SubSeq(t, 3, Len(t))

IntegerText(s) == SplitDot(AfterPrefix(s))[1]

FractionText(s) == SplitDot(AfterPrefix(s))[2]

RemoveCommas(g) == SelectSeq(g, LAMBDA c : c # ",")

\* the lengths of the comma-separated groups of g, left to right
RECURSIVE GroupLengths(_, _)
GroupLengths(g, n) ==
    IF Len(g) = 0 THEN <<n>>
    ELSE IF g[1] = "," THEN <<n>> \o GroupLengths(Tail(g), 0)
    ELSE GroupLengths(Tail(g), n + 1)

AllDigits(ds) == \A i \in 1..Len(ds) : IsDigit(ds[i])

\* the digits of the integer part of the magnitude of a finite x, once
\* rounded to hundredths
IntegerDigits(x) ==
    LET hundredths == IF x.e >= -2 THEN Digits(Abs(x.m)) \o Zeros(x.e + 2)
                      ELSE Digits(RoundDiv(Abs(x.m), Pow10(-x.e - 2)))
    IN  SubSeq(Pad3(hundredths), 1, Len(Pad3(hundredths)) - 2)

\* C14: the integer digits of a formatted amount are grouped South-Asian
\* style: with more than 3 digits the rightmost group has 3 digits and every
\* other group 2, the leftmost 1 or 2, single commas between them, and the
\* digits without the commas are those of the amount (1234567 gives
\* 12,34,567); up to 3 digits are displayed as they are.
C14_SouthAsianGrouping ==
    Converted /\ Product.k = "finite" =>
        LET g == IntegerText(elements.resultAmount)
            ds == IntegerDigits(Product)
            lens == GroupLengths(g, 0)
        IN  /\ RemoveCommas(g) = ds
            /\ Len(ds) <= 3 => g = ds
            /\ Len(ds) > 3 =>
                  /\ lens[Len(lens)] = 3
                  /\ lens[1] \in {1, 2}
                  /\ \A i \in 2..(Len(lens) - 1) : lens[i] = 2
            /\ elements.amount = <<"1", "2", "3", "4", "5", "6", "7">> /\ CurrentSell = RateNum(100)
                  => g = <<"1", "2", ",", "3", "4", ",", "5", "6", "7">>

\* -x
Negated(x) == [x EXCEPT !.m = -x.m]

\* C15: a negative amount is displayed as "-", the prefix, a space, the
\* grouped digits of its absolute integer part, a point and the fractional
\* digits; what follows the sign is the display of the amount without its
\* sign; an amount that is not negative carries no sign.
C15_NegativeSign ==
    Converted /\ Product.k # "nan" =>
        LET s == elements.resultAmount
        IN  /\ Product.m < 0 =>
                  /\ SubSeq(s, 1, 3) = <<"-", "Rs", " ">>
                  /\ AllDigits(RemoveCommas(IntegerText(s)))
                  /\ AllDigits(FractionText(s))
                  /\ Tail(s) = formatNPR(Negated(Product))
            /\ Product.m >= 0 => ~HasSign(s)

\* C16: every displayed amount, zero, positive or negative and of any
\* magnitude, ends in a point followed by exactly two decimal digits, and is
\* the format of the unrounded product amount x sell rate.
C16_TwoDecimals ==
    Converted =>
        LET s == elements.resultAmount
            n == Len(s)
        IN  /\ n >= 3
            /\ s[n - 2] = "."
            /\ IsDigit(s[n - 1]) /\ IsDigit(s[n])
            /\ Len(FractionText(s)) = 2
            /\ s = formatNPR(Product)

(***************************************************************************)
(* The display under the full page (Spec).                                 *)
(***************************************************************************)
\* C17: whenever the load has succeeded, no debounce timer is pending and the
\* amount field is not empty, the result display shows the outcome, a
\* formatted amount or the unknown-currency message, of converting the
\* selected currency and the amount in the field against the loaded document.
C17_DisplayFollowsInputs ==
    LoadStatus = "Ready" /\ timers = {} /\ elements.amount # <<>> =>
        LET conv == convertCurrency(ratesData,
                                    InitialElements(elements.currency, elements.amount))
        IN  /\ conv.outcome \in {"converted", "unknown"}
            /\ elements.resultAmount = conv.els.resultAmount

\* the result display holds a formatted amount
ShowsAmount(els) ==
    \/ StartsWith(els.resultAmount, <<"Rs", " ">>)
    \/ StartsWith(els.resultAmount, <<"-", "Rs", " ">>)

\* the result display holds a failure message
ShowsFailure(els) == els.resultAmount \in {CurrencyNotAvailable, RatesUnavailable}

\* a rate description "1 <code> = NPR <rate>" is displayed
ShowsRate(els) == StartsWith(els.resultRate, <<"1 ">>)

\* C18: the error colour is in effect only while the result display shows a
\* failure message: whenever it shows a formatted amount, the colour set by
\* an earlier unknown-currency outcome is gone.
C18_AlertOnlyWithFailure ==
    /\ elements.resultAmountColor = ErrorColor => ShowsFailure(elements)
    /\ ShowsAmount(elements) => elements.resultAmountColor # ErrorColor

\* C19: whenever a rate description is displayed, the result display shows a
\* converted amount, and the description is the one of the selected currency
\* at its loaded sell rate; next to a failure message no rate description
\* is displayed.
C19_RateMatchesAmount ==
    /\ ShowsRate(elements) =>
          /\ ShowsAmount(elements)
          /\ ratesData # Null
          /\ HasCode(ratesData.rates, elements.currency)
          /\ elements.resultRate = <<"1 ", elements.currency, " = NPR ">> \o toFixed(CurrentSell)
    /\ ShowsFailure(elements) => ~ShowsRate(elements)

====
